---------------------------- MODULE Spec2Model ----------------------------
(***************************************************************************)
(* SAMscope: the dashboard's telemetry collection (src/dashboard.py) and   *)
(* the CLI's parsers and classifier (src/diagnose.py).                     *)
(*                                                                         *)
(* Text.  A raw command output is modelled by the list str.splitlines()    *)
(* makes of it: a sequence of lines, each line a sequence of one-character *)
(* strings.  The empty output '' is the empty sequence of lines, the only  *)
(* falsy raw value.                                                        *)
(*                                                                         *)
(* Numbers.  ram_mb, free_ram and total_ram are held in units of 1/1024 MB *)
(* (MbScale), so that int(kb) / 1024 is exact; every value handled here is *)
(* far below 2^31, and the binary floating-point sums of the code are      *)
(* exact on multiples of 1/1024 of that size.  A float read from a decimal *)
(* string is held as the pair [num, den] with den a power of ten.          *)
(***************************************************************************)
EXTENDS Integers, Sequences, FiniteSets, TLC

(***************************************************************************)
(* Characters and strings                                                  *)
(***************************************************************************)
Digit == {"0", "1", "2", "3", "4", "5", "6", "7", "8", "9"}
Space == {" ", "\t"}
Upper == {"A", "B", "C", "D", "E", "F", "G", "H", "I", "J", "K", "L", "M",
          "N", "O", "P", "Q", "R", "S", "T", "U", "V", "W", "X", "Y", "Z"}

DigitVal(c) ==
    CASE c = "0" -> 0 [] c = "1" -> 1 [] c = "2" -> 2 [] c = "3" -> 3
      [] c = "4" -> 4 [] c = "5" -> 5 [] c = "6" -> 6 [] c = "7" -> 7
      [] c = "8" -> 8 [] c = "9" -> 9

\* s[a..b-1], the Python slice s[a-1:b-1] of 1-based positions
Slice(s, a, b) == SubSeq(s, a, b - 1)

\* the literal lit stands in s at position p
HasAt(s, p, lit) ==
    /\ p >= 1
    /\ p + Len(lit) - 1 <= Len(s)
    /\ \A k \in 1..Len(lit) : s[p + k - 1] = lit[k]

\* 'lit in s'
Contains(s, lit) == \E p \in 1..(Len(s) + 1) : HasAt(s, p, lit)

\* the first position >= p of s whose character is not in class (Len(s)+1 if none):
\* where a greedy run of class characters that starts at p ends
RECURSIVE RunEnd(_, _, _)
RunEnd(s, p, class) ==
    IF p <= Len(s) /\ s[p] \in class THEN RunEnd(s, p + 1, class) ELSE p

\* s.strip() == ''
IsBlank(s) == \A k \in 1..Len(s) : s[k] \in Space

\* s.replace(c, '')
RECURSIVE Remove(_, _)
Remove(s, c) ==
    IF s = <<>> THEN <<>>
    ELSE IF Head(s) = c THEN Remove(Tail(s), c)
    ELSE <<Head(s)>> \o Remove(Tail(s), c)

\* the value of a string of decimal digits
RECURSIVE DigitsValue(_)
DigitsValue(s) ==
    IF s = <<>> THEN 0
    ELSE 10 * DigitsValue(SubSeq(s, 1, Len(s) - 1)) + DigitVal(s[Len(s)])

\* int(s) for s over digits: ValueError on the empty string
IntOk(s) == s # <<>> /\ \A k \in 1..Len(s) : s[k] \in Digit

RECURSIVE Pow10(_)
Pow10(n) == IF n = 0 THEN 1 ELSE 10 * Pow10(n - 1)

Count(s, c) == Cardinality({k \in 1..Len(s) : s[k] = c})

\* float(s) for s over digits and dots: a ValueError unless s has at most one
\* dot and at least one digit
FloatOk(s) ==
    /\ \A k \in 1..Len(s) : s[k] \in Digit \cup {"."}
    /\ Count(s, ".") <= 1
    /\ \E k \in 1..Len(s) : s[k] \in Digit

FloatValue(s) ==
    LET dot == RunEnd(s, 1, Digit)
        decimals == IF dot > Len(s) THEN 0 ELSE Len(s) - dot
    IN  [num |-> DigitsValue(Remove(s, ".")), den |-> Pow10(decimals)]

\* the result of a parser: a value, or the ValueError it raised
Returned(v) == [raised |-> FALSE, value |-> v]
Raised == [raised |-> TRUE, value |-> <<>>]

(***************************************************************************)
(* collect_ram_stats_from_raw                                              *)
(***************************************************************************)
MbScale == 1024

RssMarker == <<"T","o","t","a","l"," ","R","S","S"," ","b","y"," ",
               "p","r","o","c","e","s","s",":">>
KSep == <<"K", ":", " ">>
PidOpen == <<" ", "(", "p", "i", "d", " ">>
SlashOpen == <<" ", "/">>

\* ' \(pid (\d+)(?: /.+)?\)' matches at q.  The digit run is the maximal one:
\* what follows it must be ' ' or ')'.  The optional group needs ' /', one
\* character at least, and a ')' somewhere after it.
RamTailEnd(line, q) == RunEnd(line, q + Len(PidOpen), Digit)

RamTailOk(line, q) ==
    /\ HasAt(line, q, PidOpen)
    /\ LET d == q + Len(PidOpen)
           e == RamTailEnd(line, q)
       IN  /\ e > d
           /\ \/ /\ HasAt(line, e, SlashOpen)
                 /\ \E k \in (e + 3)..Len(line) : line[k] = ")"
              \/ HasAt(line, e, <<")">>)

\* '(.+?)' is lazy: the shortest name, of one character at least, after
\* which the tail matches; 0 if there is none
RECURSIVE RamNameEnd(_, _, _)
RamNameEnd(line, p, q) ==
    IF q > Len(line) THEN 0
    ELSE IF q > p /\ RamTailOk(line, q) THEN q
    ELSE RamNameEnd(line, p, q + 1)

\* re.match(r"\s*([\d,]+)K: (.+?) \(pid (\d+)(?: /.+)?\)", line)
RamLineMatch(line) ==
    LET a == RunEnd(line, 1, Space)
        b == RunEnd(line, a, Digit \cup {","})
        p == b + Len(KSep)
        q == RamNameEnd(line, p, p)
    IN  IF b > a /\ HasAt(line, b, KSep) /\ q # 0
        THEN [ok |-> TRUE, kb |-> Slice(line, a, b), name |-> Slice(line, p, q),
              pid |-> Slice(line, q + Len(PidOpen), RamTailEnd(line, q))]
        ELSE [ok |-> FALSE, kb |-> <<>>, name |-> <<>>, pid |-> <<>>]

\* apps.sort(key=lambda x: x["ram_mb"], reverse=True): a stable sort, so
\* entries of equal ram_mb keep their order
RECURSIVE InsertDesc(_, _)
InsertDesc(sorted, a) ==
    IF sorted = <<>> THEN <<a>>
    ELSE IF Head(sorted).ram_mb >= a.ram_mb
         THEN <<Head(sorted)>> \o InsertDesc(Tail(sorted), a)
         ELSE <<a>> \o sorted

SortMissing(apps) == apps

RECURSIVE SortDesc(_)
SortDesc(apps) ==
    IF apps = <<>> THEN <<>>
    ELSE InsertDesc(SortDesc(SubSeq(apps, 1, Len(apps) - 1)), apps[Len(apps)])

\* the index of the first line holding the marker, 0 if none
RECURSIVE FirstLineWith(_, _, _)
FirstLineWith(lines, i, marker) ==
    IF i > Len(lines) THEN 0
    ELSE IF Contains(lines[i], marker) THEN i
    ELSE FirstLineWith(lines, i + 1, marker)

RECURSIVE RamScanThrough(_, _, _)
RamScanThrough(lines, i, apps) ==
    IF i > Len(lines) THEN Returned(apps)
    ELSE LET m == RamLineMatch(lines[i])
         IN  IF m.ok /\ IntOk(Remove(m.kb, ","))
             THEN RamScanThrough(lines, i + 1, Append(apps,
                      [name |-> m.name,
                       pid |-> DigitsValue(m.pid),
                       ram_mb |-> DigitsValue(Remove(m.kb, ","))]))
             ELSE IF m.ok THEN Raised
             ELSE RamScanThrough(lines, i + 1, apps)

\* the loop over the lines after the marker; int('') raises ValueError
RECURSIVE RamScan(_, _, _)
RamScan(lines, i, apps) ==
    IF i > Len(lines) THEN Returned(apps)
    ELSE LET m == RamLineMatch(lines[i])
         IN  IF m.ok
             THEN IF IntOk(Remove(m.kb, ","))
                  THEN RamScan(lines, i + 1, Append(apps,
                           [name |-> m.name,
                            pid |-> DigitsValue(m.pid),
                            ram_mb |-> DigitsValue(Remove(m.kb, ","))]))
                  ELSE Raised
             ELSE IF IsBlank(lines[i]) THEN Returned(apps)
             ELSE RamScan(lines, i + 1, apps)

collect_ram_stats_from_raw(raw) ==
    LET h == FirstLineWith(raw, 1, RssMarker)
    IN  IF h = 0 THEN Returned(<<>>)
        ELSE LET r == RamScan(raw, h + 1, <<>>)
             IN  IF r.raised THEN Raised ELSE Returned(SortDesc(r.value))

(***************************************************************************)
(* strip_ansi and collect_cpu_stats_from_raw                               *)
(***************************************************************************)
Esc == "ESC"
\* [0-?], [ -/] and [@-~] of the CSI pattern, over the characters in use
CsiParam == Digit \cup {":", ";", "<", "=", ">", "?"}
CsiInter == {" ", "!", "#", "$", "%", "&", "'", "(", ")", "*", "+", ",", "-", ".", "/"}
CsiFinal == Upper \cup {"@", "[", "]", "^", "_", "{", "|", "}", "~",
                        "a", "b", "c", "d", "e", "f", "g", "h", "i", "j", "k", "l", "m",
                        "n", "o", "p", "q", "r", "s", "t", "u", "v", "w", "x", "y", "z"}

\* where the CSI sequence that starts at p ends (the position after it), 0 if
\* none starts there: r'\x1B\[[0-?]*[ -/]*[@-~]'
CsiEnd(s, p) ==
    IF HasAt(s, p, <<Esc, "[">>)
    THEN LET f == RunEnd(s, RunEnd(s, p + 2, CsiParam), CsiInter)
         IN  IF f <= Len(s) /\ s[f] \in CsiFinal THEN f + 1 ELSE 0
    ELSE 0

RECURSIVE StripFrom(_, _)
StripFrom(s, p) ==
    IF p > Len(s) THEN <<>>
    ELSE IF CsiEnd(s, p) # 0 THEN StripFrom(s, CsiEnd(s, p))
    ELSE <<s[p]>> \o StripFrom(s, p + 1)

strip_ansi(text) == StripFrom(text, 1)

\* the first position >= p of s whose character is in class: where a greedy
\* run of \S that starts at p ends
RECURSIVE RunEndNot(_, _, _)
RunEndNot(s, p, class) ==
    IF p <= Len(s) /\ s[p] \notin class THEN RunEndNot(s, p + 1, class) ELSE p

PidLit == <<"P", "I", "D">>
UserLit == <<"U", "S", "E", "R">>
CpuColumn == <<"[", "%", "C", "P", "U", "]">>

\* re.search(r'PID\s+USER', line) and '[%CPU]' in line
IsCpuHeader(line) ==
    /\ \E p \in 1..Len(line) :
          /\ HasAt(line, p, PidLit)
          /\ LET w == RunEnd(line, p + 3, Space)
             IN  w > p + 3 /\ HasAt(line, w, UserLit)
    /\ Contains(line, CpuColumn)

RECURSIVE FirstHeader(_, _)
FirstHeader(lines, i) ==
    IF i > Len(lines) THEN 0
    ELSE IF IsCpuHeader(lines[i]) THEN i
    ELSE FirstHeader(lines, i + 1)

\* One field of the row patterns and the \s+ after it (p = 0: an earlier field
\* did not match).  Every run is the
\* maximal one: a field is followed by \s+ and a \s+ by a field of other
\* characters, so no shorter run can match.  [ok, from, to, next]: the field
\* is line[from..to-1] and the next field starts at next.
Field(line, p, class, negated) ==
    IF p = 0 THEN [ok |-> FALSE, from |-> 1, to |-> 1, next |-> 0]
    ELSE LET e == IF negated THEN RunEndNot(line, p, class) ELSE RunEnd(line, p, class)
             w == RunEnd(line, e, Space)
         IN  [ok |-> e > p /\ w > e, from |-> p, to |-> e, next |-> w]

\* The fields the two row patterns share, each with the \s+ after it:
\* (\d+) (\S+) \S+ \S+ \S+ \S+ \S+ \S+ ([\d.]+) ([\d.]+) ([\d:]+)
NonSpace == [class |-> Space, negated |-> TRUE]
Number == [class |-> Digit \cup {"."}, negated |-> FALSE]
RowFields ==
    <<[class |-> Digit, negated |-> FALSE], NonSpace,
      NonSpace, NonSpace, NonSpace, NonSpace, NonSpace, NonSpace,
      Number, Number, [class |-> Digit \cup {":"}, negated |-> FALSE]>>

\* the fields RowFields[k..] from p, after the fields found before them
RECURSIVE Fields(_, _, _, _)
Fields(line, p, k, found) ==
    IF k > Len(RowFields) THEN [ok |-> TRUE, fields |-> found]
    ELSE LET f == Field(line, p, RowFields[k].class, RowFields[k].negated)
         IN  IF f.ok THEN Fields(line, f.next, k + 1, Append(found, f))
             ELSE [ok |-> FALSE, fields |-> found]

\* the groups of a row whose fields r were found
RowGroups(line, r) ==
    IF r.ok
    THEN [ok |-> TRUE,
          pid |-> Slice(line, r.fields[1].from, r.fields[1].to),
          user |-> Slice(line, r.fields[2].from, r.fields[2].to),
          cpu |-> Slice(line, r.fields[9].from, r.fields[9].to),
          mem |-> Slice(line, r.fields[10].from, r.fields[10].to),
          time |-> Slice(line, r.fields[11].from, r.fields[11].to),
          timeEnd |-> r.fields[11].to,
          nameAt |-> r.fields[11].next]
    ELSE [ok |-> FALSE, pid |-> <<>>, user |-> <<>>, cpu |-> <<>>, mem |-> <<>>,
          time |-> <<>>, timeEnd |-> 0, nameAt |-> 0]

\* The part the two row patterns share, up to the \s+ before the name:
\* \s*(\d+)\s+(\S+)\s+ (\S+\s+){6} ([\d.]+)\s+([\d.]+)\s+([\d:]+)\s+
CpuRowPrefix(line) == RowGroups(line, Fields(line, RunEnd(line, 1, Space), 1, <<>>))

\* the strict pattern: (\S+) after the prefix m
StrictMatch(line, m) ==
    IF m.ok /\ m.nameAt <= Len(line)
    THEN [ok |-> TRUE, name |-> Slice(line, m.nameAt, RunEndNot(line, m.nameAt, Space))]
    ELSE [ok |-> FALSE, name |-> <<>>]

\* the loose pattern: (.+) after the prefix m.  When white space runs to the
\* end of the line, \s+ gives back its last character to .+
LooseMatch(line, m) ==
    LET at == IF m.nameAt <= Len(line) THEN m.nameAt ELSE Len(line)
    IN  IF m.ok /\ at > m.timeEnd
        THEN [ok |-> TRUE, name |-> Slice(line, at, Len(line) + 1)]
        ELSE [ok |-> FALSE, name |-> <<>>]

\* the sample a matched row appends; float() raises ValueError
ProcessSample(m, name) ==
    IF FloatOk(m.cpu) /\ FloatOk(m.mem)
    THEN Returned([pid |-> DigitsValue(m.pid), user |-> m.user,
                   cpu |-> FloatValue(m.cpu), mem |-> FloatValue(m.mem),
                   time |-> m.time, name |-> name])
    ELSE Raised

\* one row: the strict pattern first, the loose one when it fails
RowSample(m, strict, loose) ==
    IF strict.ok THEN [matched |-> TRUE] @@ ProcessSample(m, strict.name)
    ELSE IF loose.ok THEN [matched |-> TRUE] @@ ProcessSample(m, loose.name)
    ELSE [matched |-> FALSE] @@ Returned(<<>>)

RowMatch(line, m) == RowSample(m, StrictMatch(line, m), LooseMatch(line, m))

RECURSIVE CpuScan(_, _, _)
RECURSIVE CpuScanRow(_, _, _, _)
CpuScanRow(lines, i, processes, row) ==
    IF ~row.matched THEN CpuScan(lines, i + 1, processes)
    ELSE IF row.raised THEN Raised
    ELSE CpuScan(lines, i + 1, Append(processes, row.value))

CpuScan(lines, i, processes) ==
    IF i > Len(lines) THEN Returned(processes)
    ELSE CpuScanRow(lines, i, processes, RowMatch(lines[i], CpuRowPrefix(lines[i])))

\* [strip_ansi(line) for line in raw.splitlines() if line.strip()]
RECURSIVE CpuLines(_)
CpuLines(raw) ==
    IF raw = <<>> THEN <<>>
    ELSE IF IsBlank(Head(raw)) THEN CpuLines(Tail(raw))
    ELSE <<strip_ansi(Head(raw))>> \o CpuLines(Tail(raw))

collect_cpu_stats_from_raw(raw) ==
    LET lines == CpuLines(raw)
        h == FirstHeader(lines, 1)
    IN  IF h = 0 THEN Returned(<<>>) ELSE CpuScan(lines, h + 1, <<>>)

(***************************************************************************)
(* collect_thermal_info_from_raw                                           *)
(***************************************************************************)
TempOpen == <<"T","e","m","p","e","r","a","t","u","r","e","{","m","V","a","l","u","e","=">>
TypeSep == <<",", " ", "m", "T", "y", "p", "e", "=">>
NameSep == <<",", " ", "m", "N", "a", "m", "e", "=">>
StatusSep == <<",", " ", "m", "S", "t", "a", "t", "u", "s", "=">>

\* the pattern matches at p; every run is maximal, each being followed by a
\* literal outside its class
ThermalAt(line, p) ==
    LET v == p + Len(TempOpen)
        ve == RunEnd(line, v, Digit \cup {"."})
        t == ve + Len(TypeSep)
        te == RunEnd(line, t, Digit)
        n == te + Len(NameSep)
        ne == RunEnd(line, n, Upper \cup Digit \cup {"_"})
        s == ne + Len(StatusSep)
        se == RunEnd(line, s, Digit)
    IN  [ok |-> /\ HasAt(line, p, TempOpen) /\ ve > v
                /\ HasAt(line, ve, TypeSep) /\ te > t
                /\ HasAt(line, te, NameSep) /\ ne > n
                /\ HasAt(line, ne, StatusSep) /\ se > s
                /\ HasAt(line, se, <<"}">>),
         value |-> Slice(line, v, ve),
         name |-> Slice(line, n, ne)]

\* re.search: the leftmost position where the pattern matches, 0 if none
RECURSIVE ThermalSearch(_, _)
ThermalSearch(line, p) ==
    IF p > Len(line) THEN 0
    ELSE IF ThermalAt(line, p).ok THEN p
    ELSE ThermalSearch(line, p + 1)

\* the entry of a name keeps the value of its first line
PutFirst(sensors, name, value) ==
    [n \in DOMAIN sensors \cup {name} |->
        IF n \in DOMAIN sensors THEN sensors[n] ELSE value]
\* sensors[name] = float(value): a later line replaces the entry of its name
Put(sensors, name, value) ==
    [n \in DOMAIN sensors \cup {name} |-> IF n = name THEN value ELSE sensors[n]]

NoSensors == [n \in {} |-> 0]

RECURSIVE ThermalScan(_, _, _)
ThermalScan(lines, i, sensors) ==
    IF i > Len(lines) THEN Returned(sensors)
    ELSE LET p == ThermalSearch(lines[i], 1)
             m == ThermalAt(lines[i], p)
         IN  IF p = 0 THEN ThermalScan(lines, i + 1, sensors)
             ELSE IF FloatOk(m.value)
                  THEN ThermalScan(lines, i + 1, Put(sensors, m.name, FloatValue(m.value)))
                  ELSE Raised

collect_thermal_info_from_raw(raw) == ThermalScan(raw, 1, NoSensors)

(***************************************************************************)
(* run_adb and collect_stats                                               *)
(***************************************************************************)
\* What subprocess.run did with a command: it ended with return code 0
\* ("ok"), ended with another code ("nonzero"), or raised TimeoutExpired
\* ("timeout"); stdout is the text it wrote.
Outcomes == {"ok", "nonzero", "timeout"}
Ran(kind, text) == [kind |-> kind, stdout |-> text]

run_adb(outcome) == IF outcome.kind = "ok" THEN outcome.stdout ELSE <<>>

total_ram == 4096
LowFreeMb == 500
MediumFreeMb == 1000
TopN == 5

RECURSIVE SumRam(_)
SumRam(ram) == IF ram = <<>> THEN 0 ELSE Head(ram).ram_mb + SumRam(Tail(ram))

\* s[:n]
Take(s, n) == SubSeq(s, 1, IF Len(s) < n THEN Len(s) ELSE n)

mem_health_inclusive(free_ram) ==
    IF free_ram <= LowFreeMb * MbScale THEN "low"
    ELSE IF free_ram <= MediumFreeMb * MbScale THEN "medium"
    ELSE "good"

mem_health(free_ram) ==
    IF free_ram < LowFreeMb * MbScale THEN "low"
    ELSE IF free_ram < MediumFreeMb * MbScale THEN "medium"
    ELSE "good"

used_ram_reported(ram) == SumRam(Take(ram, TopN))

\* the summed ram_mb of the entries the memory health is computed from
used_ram(ram) == SumRam(ram)

\* the dictionary collect_stats returns from the three parsed results
Snapshot(cpu, ram, thermal, clock) ==
    [cpu |-> Take(cpu, TopN),
     ram |-> Take(ram, TopN),
     thermal |-> thermal,
     timestamp |-> clock,
     last_updated |-> clock,
     mem_health |-> mem_health(total_ram * MbScale - used_ram(ram)),
     free_ram |-> total_ram * MbScale - used_ram(ram),
     total_ram |-> total_ram * MbScale,
     jank |-> <<>>,
     storage |-> <<>>]

\* cmds: the outcome of each of the three commands; clock: time.time().  A
\* parser is called only on a truthy raw text; a ValueError of a parser
\* leaves collect_stats.
collect_stats(cmds, clock) ==
    LET cpu_raw == run_adb(cmds.cpu)
        ram_raw == run_adb(cmds.ram)
        thermal_raw == run_adb(cmds.thermal)
        cpu == IF cpu_raw # <<>> THEN collect_cpu_stats_from_raw(cpu_raw)
               ELSE Returned(<<>>)
        ram == IF ram_raw # <<>> THEN collect_ram_stats_from_raw(ram_raw)
               ELSE Returned(<<>>)
        thermal == IF thermal_raw # <<>> THEN collect_thermal_info_from_raw(thermal_raw)
                   ELSE Returned(NoSensors)
    IN  IF cpu.raised \/ ram.raised \/ thermal.raised THEN Raised
        ELSE Returned(Snapshot(cpu.value, ram.value, thermal.value, clock))

(***************************************************************************)
(* Command outputs the device may give                                     *)
(***************************************************************************)
Sp == <<" ">>
TopHeader == <<"P","I","D"," ","U","S","E","R"," ","P","R"," ","N","I"," ",
               "V","I","R","T"," ","R","E","S"," ","S","H","R"," ",
               "S","[","%","C","P","U","]"," ","%","M","E","M"," ",
               "T","I","M","E","+"," ","A","R","G","S">>
\* a row of top: PID, then USER to S, then %CPU, then %MEM and TIME+, then ARGS
RowMid == <<" ","r","o","o","t"," ","2","0"," ","0"," ","1","G"," ",
            "2","M"," ","1","M"," ","S"," ">>
RowTime == <<" ","0",".","3"," ","1",":","0","2"," ">>
TopRow(pid, cpu, name) == pid \o RowMid \o cpu \o RowTime \o name

InitName == <<"i", "n", "i", "t">>
ComA == <<"c", "o", "m", ".", "a">>

CpuSix ==
    <<TopHeader,
      TopRow(<<"1">>, <<"9", "0">>, InitName),
      TopRow(<<"2">>, <<"5", "0", ".", "0">>, ComA),
      TopRow(<<"3">>, <<"4", "9", ".", "9">>, ComA \o Sp \o <<"b">>),
      TopRow(<<"4">>, <<"7">>, InitName),
      TopRow(<<"5">>, <<"7">>, ComA),
      TopRow(<<"6">>, <<"0", ".", "5">>, InitName)>>
CpuOne == <<TopHeader, TopRow(<<"1", "2">>, <<"3", ".", "5">>, ComA)>>
CpuNoRows == <<TopHeader>>
CpuNoHeader == <<TopRow(<<"1">>, <<"9", "0">>, InitName)>>
CpuBadFloat == <<TopHeader, TopRow(<<"7">>, <<"1", ".", "2", ".", "3">>, InitName)>>
CpuTexts == {CpuSix, CpuOne, CpuNoRows, CpuNoHeader, CpuBadFloat}

\* a line of the 'Total RSS by process:' section
RssEntry(kb, name, pid) == kb \o KSep \o name \o PidOpen \o pid \o <<")">>
RssActivities(kb, name, pid) ==
    kb \o KSep \o name \o PidOpen \o pid
       \o <<" ","/"," ","a","c","t","i","v","i","t","i","e","s",")">>
OomTitle == <<"T","o","t","a","l"," ","P","S","S"," ","b","y"," ",
              "O","O","M"," ","a","d","j","u","s","t","m","e","n","t",":">>

\* 3,170,304 kB leave 1000 MB free and 512,000 kB more leave 500 MB free
RamPool ==
    {RssEntry(<<"3",",","1","7","0",",","3","0","4">>, InitName, <<"1">>),
     RssEntry(<<"1">>, ComA, <<"2">>),
     RssEntry(<<"5","1","2",",","0","0","0">>, ComA \o Sp \o <<"b">>, <<"3">>),
     RssEntry(<<"5","1","2",",","0","0","1">>, InitName, <<"4">>),
     RssActivities(<<" ", "2",",","0","4","8">>, ComA, <<"1","2">>),
     RssEntry(<<",">>, InitName, <<"5">>),
     OomTitle,
     <<>>}

MaxRamLines == 2

RECURSIVE TextsOver(_, _)
\* the texts of at most n lines of pool
TextsOver(pool, n) ==
    IF n = 0 THEN {<<>>}
    ELSE LET shorter == TextsOver(pool, n - 1)
         IN  shorter \cup {Append(t, l) : t \in shorter, l \in pool}

RamSeven ==
    <<OomTitle, RssMarker,
      RssEntry(<<"3","0","0">>, InitName, <<"1">>),
      RssEntry(<<"7","0","0">>, ComA, <<"2">>),
      RssEntry(<<"1",",","0","2","4">>, InitName, <<"3">>),
      RssEntry(<<"7","0","0">>, InitName, <<"4">>),
      RssEntry(<<"2","0","0">>, ComA, <<"5">>),
      RssEntry(<<"9","0","0">>, ComA, <<"6">>),
      RssEntry(<<"4",",","0","0","0",",","0","0","0">>, ComA, <<"7">>),
      <<>>,
      RssEntry(<<"5",",","0","0","0">>, ComA, <<"8">>)>>
RamOne == <<RssMarker, RssEntry(<<"2",",","0","4","8">>, ComA, <<"2">>)>>
RamNoMarker == <<RssEntry(<<"2",",","0","4","8">>, ComA, <<"2">>)>>
RamBadInt == <<RssMarker, RssEntry(<<",">>, InitName, <<"5">>)>>
RamTexts ==
    {<<RssMarker>> \o t : t \in TextsOver(RamPool, MaxRamLines)}
        \cup {RamSeven, RamOne, RamNoMarker}

TempLine(value, name) ==
    <<"T","e","m","p","e","r","a","t","u","r","e","{","m","V","a","l","u","e","=">>
        \o value \o <<",", " ", "m", "T", "y", "p", "e", "=", "0">> \o NameSep
        \o name \o StatusSep \o <<"0", "}">>
SensorAP == <<"A", "P">>
SensorBat == <<"B", "A", "T", "_", "1">>
ThermalTwice ==
    <<TempLine(<<"3", "8", ".", "1">>, SensorAP),
      TempLine(<<"3", "0">>, SensorBat),
      TempLine(<<"3", "9", ".", "5">>, SensorAP)>>
ThermalOne == <<TempLine(<<"3", "8", ".", "1">>, SensorAP)>>
ThermalNone == <<<<"C", "a", "c", "h", "e", "d">>>>
ThermalBadFloat == <<TempLine(<<".">>, SensorAP)>>
ThermalTexts == {ThermalTwice, ThermalOne, ThermalNone, ThermalBadFloat}

Commands(cpu, ram, thermal) == [cpu |-> cpu, ram |-> ram, thermal |-> thermal]

\* the three commands, each ending in each of the three ways
OutcomeCases ==
    {Commands(Ran(a, CpuSix), Ran(b, RamSeven), Ran(c, ThermalTwice)) :
        a \in Outcomes, b \in Outcomes, c \in Outcomes}
\* the three commands ending well, over the texts of each
TextCases ==
    {Commands(Ran("ok", CpuOne), Ran("ok", t), Ran("ok", ThermalOne)) : t \in RamTexts}
        \cup {Commands(Ran("ok", t), Ran("ok", RamOne), Ran("ok", ThermalOne)) :
                t \in CpuTexts \cup {<<>>}}
        \cup {Commands(Ran("ok", CpuOne), Ran("ok", RamOne), Ran("ok", t)) :
                t \in ThermalTexts \cup {<<>>}}
        \cup {Commands(Ran("ok", <<>>), Ran("ok", <<>>), Ran("ok", <<>>))}
StatsInputs == OutcomeCases \cup TextCases

\* what the commands of a tick of the session monitor may give
AllFail == Commands(Ran("timeout", <<>>), Ran("nonzero", <<>>), Ran("timeout", <<>>))
OneWell == Commands(Ran("timeout", <<>>), Ran("nonzero", <<>>), Ran("ok", ThermalOne))
BadText == Commands(Ran("timeout", <<>>), Ran("ok", RamBadInt), Ran("timeout", <<>>))
TickInputs == {AllFail, OneWell, BadText}

(***************************************************************************)
(* The dashboard: the session monitor and the request handlers             *)
(***************************************************************************)
session_interval == 5
JoinTimeout == 2

NumHandlers == 2
MaxCalls == 3
MaxHist == 2
MaxTime == 5

Handlers == 1..NumHandlers
\* a start() makes one thread at most
Threads == 1..MaxCalls
None == 0

VARIABLES
    cmds,            \* /api/stats, the CLI: the outcomes of the commands
    stats,           \* /api/stats, the CLI: what collect_stats, run_diagnostics gave
    session_active,  \* the global flag
    session_data,    \* the list the global session_data names
    session_thread,  \* the global session_thread: a thread, or None
    data_lock,       \* Free, or the task that holds it
    now,             \* the clock, in seconds
    tpc,             \* where each session_monitor thread stands
    twake,           \* when its time.sleep ends
    tstats,          \* its local stats
    hpc,             \* where each request handler stands
    hjoin,           \* the thread a stop handler joins, and until when; history:
                     \* the session it was called in, and whether no other
                     \* request was being served then
    hview,           \* the list json.dump iterates over
    exported,        \* what the last stop wrote to session.json; history: the
                     \* ticks completed, the sessions at its call and its end
    cancelled,       \* history: a stop was called since the thread was started
    tsess,           \* history: the session in which the thread's tick began
    nsess,           \* history: the number of start() calls that found Idle
    origin,          \* history: for each element of session_data, its tick's session
    nticks,          \* history: the ticks of this session that have completed
    ncalls           \* history: the number of requests accepted

statsVars == <<cmds, stats>>
globalVars == <<session_active, session_data, session_thread, data_lock>>
threadVars == <<tpc, twake, tstats>>
handlerVars == <<hpc, hjoin, hview, exported>>
historyVars == <<cancelled, tsess, nsess, origin, nticks, ncalls>>
sessionVars == <<globalVars, now, threadVars, handlerVars, historyVars>>
vars == <<statsVars, sessionVars>>

NoStats == [done |-> FALSE, raised |-> FALSE, value |-> <<>>]
NoExport == [done |-> FALSE, data |-> <<>>, origin |-> <<>>,
             nticks |-> 0, called |-> 0, ended |-> 0, alone |-> FALSE]
Live == [live |-> TRUE, data |-> <<>>, origin |-> <<>>]
Free == <<>>
Monitor(t) == <<"monitor", t>>
Handler(h) == <<"handler", h>>
NoJoin == [target |-> 0, deadline |-> 0, sess |-> 0, alone |-> FALSE]

\* the module's globals, lines 16-20, before any request
SessionInit ==
    /\ session_active = FALSE
    /\ session_data = <<>>
    /\ session_thread = None
    /\ data_lock = Free
    /\ now = 0
    /\ tpc = [t \in Threads |-> "unborn"]
    /\ twake = [t \in Threads |-> 0]
    /\ tstats = [t \in Threads |-> <<>>]
    /\ hpc = [h \in Handlers |-> "idle"]
    /\ hjoin = [h \in Handlers |-> NoJoin]
    /\ hview = [h \in Handlers |-> Live]
    /\ exported = NoExport
    /\ cancelled = [t \in Threads |-> FALSE]
    /\ tsess = [t \in Threads |-> 0]
    /\ nsess = 0
    /\ origin = <<>>
    /\ nticks = 0
    /\ ncalls = 0

Init ==
    /\ cmds = AllFail
    /\ stats = NoStats
    /\ SessionInit

(***************************************************************************)
(* session_monitor: one step per point where the thread can be overtaken   *)
(***************************************************************************)
\* while session_active: the test of the loop, at the start of the thread and
\* when time.sleep(session_interval) has ended, not before the interval passed
MonCheck(t) ==
    /\ tpc[t] = "loop"
    /\ now >= twake[t]
    /\ session_active => Len(session_data) < MaxHist
    /\ tpc' = [tpc EXCEPT ![t] = IF session_active THEN "collect" ELSE "dead"]
    /\ tsess' = [tsess EXCEPT ![t] = IF session_active THEN nsess ELSE 0]
    /\ twake' = [twake EXCEPT ![t] = 0]
    /\ UNCHANGED <<statsVars, globalVars, now, tstats, handlerVars,
                   cancelled, nsess, origin, nticks, ncalls>>

\* stats = collect_stats(): an exception of collect_stats ends the thread
MonCollect(t) ==
    /\ tpc[t] = "collect"
    /\ \E c \in TickInputs :
          LET r == collect_stats(c, now)
          IN  IF r.raised
              THEN /\ tpc' = [tpc EXCEPT ![t] = "dead"]
                   /\ tsess' = [tsess EXCEPT ![t] = 0]
                   /\ UNCHANGED tstats
              ELSE /\ tpc' = [tpc EXCEPT ![t] = "lock"]
                   /\ tstats' = [tstats EXCEPT ![t] = r.value]
                   /\ UNCHANGED tsess
    /\ UNCHANGED <<statsVars, globalVars, now, twake, handlerVars,
                   cancelled, nsess, origin, nticks, ncalls>>

\* with data_lock:
MonAcquire(t) ==
    /\ tpc[t] = "lock"
    /\ data_lock = Free
    /\ data_lock' = Monitor(t)
    /\ tpc' = [tpc EXCEPT ![t] = "append"]
    /\ UNCHANGED <<statsVars, session_active, session_data, session_thread, now,
                   twake, tstats, handlerVars, historyVars>>

\* session_data.append(stats), the end of the with block, time.sleep begins
MonAppend(t) ==
    /\ tpc[t] = "append"
    /\ session_data' = Append(session_data, tstats[t])
    /\ data_lock' = Free
    /\ tpc' = [tpc EXCEPT ![t] = "loop"]
    /\ twake' = [twake EXCEPT ![t] = now + session_interval]
    /\ tstats' = [tstats EXCEPT ![t] = <<>>]
    /\ origin' = Append(origin, tsess[t])
    /\ nticks' = IF tsess[t] = nsess THEN nticks + 1 ELSE nticks
    /\ UNCHANGED <<statsVars, session_active, session_thread, now, handlerVars,
                   cancelled, tsess, nsess, ncalls>>

(***************************************************************************)
(* POST /api/session/start                                                 *)
(***************************************************************************)
Unborn == {t \in Threads : tpc[t] = "unborn"}

api_session_start_unguarded(h) ==
    /\ hpc[h] = "idle"
    /\ ncalls < MaxCalls
    /\ ncalls' = ncalls + 1
    /\ hpc' = [hpc EXCEPT ![h] = "s_set"]
    /\ nsess' = nsess + 1
    /\ nticks' = 0
    /\ UNCHANGED <<statsVars, globalVars, now, threadVars, hjoin, hview, exported,
                   cancelled, tsess, origin>>

\* if not session_active: ... return jsonify({'status': 'started'})
api_session_start(h) ==
    /\ hpc[h] = "idle"
    /\ ncalls < MaxCalls
    /\ ncalls' = ncalls + 1
    /\ IF ~session_active
       THEN /\ hpc' = [hpc EXCEPT ![h] = "s_set"]
            /\ nsess' = nsess + 1
            /\ nticks' = 0
       ELSE UNCHANGED <<hpc, nsess, nticks>>
    /\ UNCHANGED <<statsVars, globalVars, now, threadVars, hjoin, hview, exported,
                   cancelled, tsess, origin>>

\* session_active = True
StartSet(h) ==
    /\ hpc[h] = "s_set"
    /\ session_active' = TRUE
    /\ hpc' = [hpc EXCEPT ![h] = "s_clear"]
    /\ UNCHANGED <<statsVars, session_data, session_thread, data_lock, now,
                   threadVars, hjoin, hview, exported, historyVars>>

\* session_data = []: the name is bound to a new list; a json.dump under way
\* keeps the list it was given
StartClear(h) ==
    /\ hpc[h] = "s_clear"
    /\ session_data' = <<>>
    /\ origin' = <<>>
    /\ hview' = [g \in Handlers |->
                    IF hpc[g] = "dumping" /\ hview[g].live
                    THEN [live |-> FALSE, data |-> session_data, origin |-> origin]
                    ELSE hview[g]]
    /\ hpc' = [hpc EXCEPT ![h] = "s_spawn"]
    /\ UNCHANGED <<statsVars, session_active, session_thread, data_lock, now,
                   threadVars, hjoin, exported, cancelled, tsess, nsess, nticks, ncalls>>

\* session_thread = threading.Thread(...); session_thread.start()
StartSpawn(h) ==
    /\ hpc[h] = "s_spawn"
    /\ LET t == CHOOSE u \in Unborn : \A v \in Unborn : u <= v
       IN  /\ session_thread' = t
           /\ tpc' = [tpc EXCEPT ![t] = "loop"]
           /\ twake' = [twake EXCEPT ![t] = now]
    /\ hpc' = [hpc EXCEPT ![h] = "idle"]
    /\ UNCHANGED <<statsVars, session_active, session_data, data_lock, now,
                   tstats, hjoin, hview, exported, historyVars>>

(***************************************************************************)
(* POST /api/session/stop                                                  *)
(***************************************************************************)
Alive(t) == tpc[t] \notin {"unborn", "dead"}

\* session_active = False; if session_thread: session_thread.join(timeout=2)
api_session_stop(h) ==
    /\ hpc[h] = "idle"
    /\ ncalls < MaxCalls
    /\ ncalls' = ncalls + 1
    /\ session_active' = FALSE
    /\ cancelled' = [t \in Threads |-> cancelled[t] \/ Alive(t)]
    /\ hpc' = [hpc EXCEPT ![h] = "join"]
    /\ hjoin' = [hjoin EXCEPT ![h] =
                    [target |-> session_thread,
                     deadline |-> IF session_thread # None THEN now + JoinTimeout ELSE now,
                     sess |-> nsess,
                     alone |-> \A g \in Handlers : hpc[g] = "idle"]]
    /\ UNCHANGED <<statsVars, session_data, session_thread, data_lock, now,
                   threadVars, hview, exported, tsess, nsess, origin, nticks>>

\* join has returned (the thread has ended, or the timeout has passed), the
\* output file is open, and json.dump(session_data, ...) is given the list
\* and starts to iterate over it, data_lock not held
StopLoad(h) ==
    /\ hpc[h] = "join"
    /\ IF hjoin[h].target = None THEN TRUE
       ELSE tpc[hjoin[h].target] = "dead" \/ now >= hjoin[h].deadline
    /\ hpc' = [hpc EXCEPT ![h] = "dumping"]
    /\ hview' = [hview EXCEPT ![h] = Live]
    /\ UNCHANGED <<statsVars, globalVars, now, threadVars, hjoin, exported, historyVars>>

\* json.dump ends: the iteration has met every element the list had by now
StopDump(h) ==
    /\ hpc[h] = "dumping"
    /\ exported' = [done |-> TRUE,
                    data |-> IF hview[h].live THEN session_data ELSE hview[h].data,
                    origin |-> IF hview[h].live THEN origin ELSE hview[h].origin,
                    nticks |-> nticks,
                    called |-> hjoin[h].sess,
                    ended |-> nsess,
                    alone |-> hjoin[h].alone]
    /\ hview' = [hview EXCEPT ![h] = Live]
    /\ hjoin' = [hjoin EXCEPT ![h] = NoJoin]
    /\ hpc' = [hpc EXCEPT ![h] = "idle"]
    /\ UNCHANGED <<statsVars, globalVars, now, threadVars, historyVars>>

\* a second passes
Tick ==
    /\ now < MaxTime
    /\ now' = now + 1
    /\ UNCHANGED <<statsVars, globalVars, threadVars, handlerVars, historyVars>>

Next ==
    \/ \E t \in Threads : MonCheck(t)
    \/ \E t \in Threads : MonCollect(t)
    \/ \E t \in Threads : MonAcquire(t)
    \/ \E t \in Threads : MonAppend(t)
    \/ \E h \in Handlers : api_session_start(h)
    \/ \E h \in Handlers : StartSet(h)
    \/ \E h \in Handlers : StartClear(h)
    \/ \E h \in Handlers : StartSpawn(h)
    \/ \E h \in Handlers : api_session_stop(h)
    \/ \E h \in Handlers : StopLoad(h)
    \/ \E h \in Handlers : StopDump(h)
    \/ Tick

Spec == Init /\ [][Next]_vars

(***************************************************************************)
(* GET /api/stats: collect_stats on its own                                *)
(***************************************************************************)
StatsInit ==
    /\ cmds \in StatsInputs
    /\ stats = NoStats
    /\ SessionInit

api_stats ==
    /\ ~stats.done
    /\ stats' = [done |-> TRUE] @@ collect_stats(cmds, now)
    /\ UNCHANGED <<cmds, sessionVars>>

StatsSpec == StatsInit /\ [][api_stats]_vars

(***************************************************************************)
(* The CLI (src/diagnose.py): the frame and service parsers                *)
(*                                                                         *)
(* A frame time is the exact rational [num, den] of its decimal string.    *)
(* The tokens drawn below are over digits and dots and a few letters that  *)
(* form no float literal (no sign, exponent, underscore, inf or nan), and  *)
(* their binary floating-point sums are exact: every sum is of multiples   *)
(* of 1/4, or of one value and zeros.                                      *)
(***************************************************************************)
ProfileMarker == <<"P","r","o","f","i","l","e"," ","d","a","t","a"," ",
                   "i","n"," ","m","s",":">>

\* a + b, a > b, a = b and a / n on rationals whose denominators are powers
\* of ten (the larger denominator is a multiple of the other)
AddQ(a, b) ==
    IF a.den >= b.den
    THEN [num |-> a.num + b.num * (a.den \div b.den), den |-> a.den]
    ELSE [num |-> a.num * (b.den \div a.den) + b.num, den |-> b.den]
GreaterQ(a, b) == a.num * b.den > b.num * a.den
EqualQ(a, b) == a.num * b.den = b.num * a.den
OverQ(a, n) == [num |-> a.num, den |-> a.den * n]
ZeroQ == [num |-> 0, den |-> 1]

\* 16.67
JankMs == [num |-> 1667, den |-> 100]

\* a field of a report that may hold Python's None: <<>> is None and <<v>> is
\* the value v
Absent == <<>>
Some(v) == <<v>>

\* line.strip().split(): the maximal runs of characters that are not white space
RECURSIVE Split(_, _, _)
Split(line, p, parts) ==
    LET a == RunEnd(line, p, Space)
    IN  IF a > Len(line) THEN parts
        ELSE Split(line, RunEndNot(line, a, Space),
                   Append(parts, Slice(line, a, RunEndNot(line, a, Space))))

\* sum(frame_times)
RECURSIVE SumQ(_)
SumQ(times) ==
    IF times = <<>> THEN ZeroQ
    ELSE AddQ(SumQ(SubSeq(times, 1, Len(times) - 1)), times[Len(times)])

\* the frame times after a line of the section: a line of three tokens that
\* float() accepts adds their sum; any other line adds nothing (ValueError
\* is caught)
FrameTimes(frame_times, parts) ==
    IF Len(parts) = 3 /\ \A k \in 1..3 : FloatOk(parts[k])
    THEN Append(frame_times,
                AddQ(AddQ(FloatValue(parts[1]), FloatValue(parts[2])),
                     FloatValue(parts[3])))
    ELSE frame_times

RECURSIVE GfxScan(_, _, _, _)
GfxScan(lines, i, in_section, frame_times) ==
    IF i > Len(lines) THEN frame_times
    ELSE IF Contains(lines[i], ProfileMarker) THEN GfxScan(lines, i + 1, TRUE, frame_times)
    ELSE IF ~in_section THEN GfxScan(lines, i + 1, FALSE, frame_times)
    ELSE IF IsBlank(lines[i]) THEN frame_times
    ELSE GfxScan(lines, i + 1, TRUE, FrameTimes(frame_times, Split(lines[i], 1, <<>>)))

NoFramesZeroFilled ==
    [avg_frame_time_ms |-> Some(ZeroQ), jank_frames |-> Some(0), total_frames |-> 0]
NoFrames == [avg_frame_time_ms |-> Absent, jank_frames |-> Absent, total_frames |-> 0]

GfxStatsFromLimit(frame_times) ==
    IF frame_times # <<>>
    THEN [avg_frame_time_ms |-> Some(OverQ(SumQ(frame_times), Len(frame_times))),
          jank_frames |-> Some(Cardinality({k \in 1..Len(frame_times) :
                                               ~GreaterQ(JankMs, frame_times[k])})),
          total_frames |-> Len(frame_times)]
    ELSE NoFrames
GfxStats(frame_times) ==
    IF frame_times # <<>>
    THEN [avg_frame_time_ms |-> Some(OverQ(SumQ(frame_times), Len(frame_times))),
          jank_frames |-> Some(Cardinality({k \in 1..Len(frame_times) :
                                               GreaterQ(frame_times[k], JankMs)})),
          total_frames |-> Len(frame_times)]
    ELSE NoFrames

collect_gfx_stats_from_raw(raw) == Returned(GfxStats(GfxScan(raw, 1, FALSE, <<>>)))

Lower == {"a", "b", "c", "d", "e", "f", "g", "h", "i", "j", "k", "l", "m",
          "n", "o", "p", "q", "r", "s", "t", "u", "v", "w", "x", "y", "z"}
Word == Upper \cup Lower \cup Digit \cup {"_"}
Hex == Digit \cup {"a", "b", "c", "d", "e", "f"}
RecordOpen == <<"*"," ","S","e","r","v","i","c","e","R","e","c","o","r","d","{">>
UserOpen == <<" ", "u">>

\* the last position in from..(to - 1) of s that holds c, 0 if none
RECURSIVE LastAt(_, _, _, _)
LastAt(s, from, to, c) ==
    IF to <= from THEN 0
    ELSE IF s[to - 1] = c THEN to - 1
    ELSE LastAt(s, from, to - 1, c)

\* re.match(r'\s*\* ServiceRecord\{[a-f0-9]+ u\d+ ([\w\.]+)/(\S+)\}', line).
\* Each run but the last is the maximal one, the character after it being
\* outside its class; (\S+) is greedy and gives back up to the last '}' of
\* its run, keeping one character at least.
ServiceMatch(line, h) ==
    LET he == RunEnd(line, h, Hex)
        d == he + Len(UserOpen)
        de == RunEnd(line, d, Digit)
        k == de + 1
        ke == RunEnd(line, k, Word \cup {"."})
        v == ke + 1
        close == LastAt(line, v + 1, RunEndNot(line, v, Space), "}")
    IN  IF /\ HasAt(line, h - Len(RecordOpen), RecordOpen)
           /\ he > h /\ HasAt(line, he, UserOpen)
           /\ de > d /\ HasAt(line, de, <<" ">>)
           /\ ke > k /\ HasAt(line, ke, <<"/">>)
           /\ close # 0
        THEN [ok |-> TRUE, pkg |-> Slice(line, k, ke), svc |-> Slice(line, v, close)]
        ELSE [ok |-> FALSE, pkg |-> <<>>, svc |-> <<>>]

\* services.append(f"{pkg}/{svc}") for every line that matches
RECURSIVE ServiceScan(_, _, _)
RECURSIVE ServiceScanLine(_, _, _, _)
ServiceScanLine(lines, i, services, m) ==
    IF m.ok THEN ServiceScan(lines, i + 1, Append(services, m.pkg \o <<"/">> \o m.svc))
    ELSE ServiceScan(lines, i + 1, services)

ServiceScan(lines, i, services) ==
    IF i > Len(lines) THEN services
    ELSE ServiceScanLine(lines, i, services,
             ServiceMatch(lines[i], RunEnd(lines[i], 1, Space) + Len(RecordOpen)))

collect_services_from_raw(raw) == Returned(ServiceScan(raw, 1, <<>>))

(***************************************************************************)
(* The CLI (src/diagnose.py): the classifiers                              *)
(***************************************************************************)
HEAVY_CPU == 50
HEAVY_RAM == 300

\* [p for p in processes if p["cpu"] >= HEAVY_CPU]
IsHeavyCpu(p) == p.cpu.num >= HEAVY_CPU * p.cpu.den
highlight_heavy_cpu(processes) == SelectSeq(processes, IsHeavyCpu)

IsHeavyRamAbove(a) == a.ram_mb > HEAVY_RAM * MbScale

\* [a for a in apps if a["ram_mb"] >= HEAVY_RAM]
IsHeavyRam(a) == a.ram_mb >= HEAVY_RAM * MbScale
highlight_heavy_ram(apps) == SelectSeq(apps, IsHeavyRam)

\* the names of the list system_names
system_names ==
    {<<"s","y","s","t","e","m","_","s","e","r","v","e","r">>,
     <<"s","u","r","f","a","c","e","f","l","i","n","g","e","r">>,
     <<"a","u","d","i","o","s","e","r","v","e","r">>,
     <<"m","e","d","i","a","s","e","r","v","e","r">>,
     <<"z","y","g","o","t","e">>,
     <<"i","n","i","t">>,
     <<"l","o","g","d">>,
     <<"s","t","a","t","s","d">>,
     <<"a","d","b","d">>,
     <<"a","n","d","r","o","i","d",".","h","a","r","d","w","a","r","e">>,
     <<"v","e","n","d","o","r",".">>,
     <<"s","e","r","v","i","c","e","m","a","n","a","g","e","r">>,
     <<"h","w","s","e","r","v","i","c","e","m","a","n","a","g","e","r">>,
     <<"g","a","t","e","k","e","e","p","e","r","d">>,
     <<"k","e","y","s","t","o","r","e","2">>,
     <<"r","i","l","d">>,
     <<"n","e","t","d">>,
     <<"l","m","k","d">>,
     <<"c","a","m","e","r","a","s","e","r","v","e","r">>,
     <<"d","r","m","s","e","r","v","e","r">>,
     <<"g","p","s","d">>,
     <<"v","a","u","l","t","k","e","e","p","e","r","d">>,
     <<"w","a","t","c","h","d","o","g","d">>,
     <<"t","r","a","c","e","d">>,
     <<"t","r","a","c","e","d","_","p","r","o","b","e","s">>,
     <<"t","o","m","b","s","t","o","n","e","d">>,
     <<"u","e","v","e","n","t","d">>,
     <<"v","o","l","d">>,
     <<"a","u","d","i","t","d">>,
     <<"c","r","e","d","s","t","o","r","e">>,
     <<"p","e","r","f","s","d","k","s","e","r","v","e","r">>,
     <<"m","a","i","n","_","a","b","o","x">>,
     <<"a","b","o","x","_","l","o","g">>,
     <<"f","a","b","r","i","c","_","c","r","y","p","t","o">>,
     <<"i","n","c","i","d","e","n","t","d">>,
     <<"i","o","d">>,
     <<"c","a","s","s">>,
     <<"s","m","d","e","x","e">>,
     <<"s","p","e","g","_","h","e","l","p","e","r">>,
     <<"s","p","q","r","_","s","e","r","v","i","c","e">>,
     <<"e","m","s","e","r","v","i","c","e">>,
     <<"t","z","d","a","e","m","o","n">>,
     <<"p","r","n","g","_","s","e","e","d","e","r">>,
     <<"s","m","c","_","s","e","r","v","e","r">>,
     <<"w","l","b","t","d">>,
     <<"c","o","n","n","f","w","e","x","e">>,
     <<"d","d","e","x","e">>,
     <<"d","i","a","g","e","x","e">>,
     <<"c","b","d">>,
     <<"m","e","d","i","a",".","s","w","c","o","d","e","c">>,
     <<"m","e","d","i","a",".","e","x","t","r","a","c","t","o","r">>,
     <<"m","e","d","i","a",".","m","e","t","r","i","c","s">>,
     <<"a","n","d","r","o","i","d",".","s","y","s","t","e","m",".","s","u","s","p","e","n","d","-","s","e","r","v","i","c","e">>,
     <<"a","n","d","r","o","i","d",".","h","a","r","d","w","a","r","e",".","m","e","m","t","r","a","c","k","-","s","e","r","v","i","c","e",".","e","x","y","n","o","s">>,
     <<"a","n","d","r","o","i","d",".","h","a","r","d","w","a","r","e",".","b","l","u","e","t","o","o","t","h","@","1",".","0","-","s","e","r","v","i","c","e">>,
     <<"a","n","d","r","o","i","d",".","h","a","r","d","w","a","r","e",".","d","r","m","-","s","e","r","v","i","c","e",".","w","i","d","e","v","i","n","e">>,
     <<"a","n","d","r","o","i","d",".","h","a","r","d","w","a","r","e",".","d","r","m","-","s","e","r","v","i","c","e",".","c","l","e","a","r","k","e","y">>,
     <<"a","n","d","r","o","i","d",".","h","a","r","d","w","a","r","e",".","g","a","t","e","k","e","e","p","e","r","@","1",".","0","-","s","e","r","v","i","c","e">>,
     <<"a","n","d","r","o","i","d",".","h","a","r","d","w","a","r","e",".","g","r","a","p","h","i","c","s",".","a","l","l","o","c","a","t","o","r","@","4",".","0","-","s","e","r","v","i","c","e">>,
     <<"a","n","d","r","o","i","d",".","h","a","r","d","w","a","r","e",".","g","r","a","p","h","i","c","s",".","c","o","m","p","o","s","e","r","@","2",".","2","-","s","e","r","v","i","c","e">>,
     <<"a","n","d","r","o","i","d",".","h","a","r","d","w","a","r","e",".","p","o","w","e","r",".","s","a","m","s","u","n","g","-","s","e","r","v","i","c","e">>,
     <<"a","n","d","r","o","i","d",".","h","a","r","d","w","a","r","e",".","s","e","n","s","o","r","s","-","s","e","r","v","i","c","e",".","m","u","l","t","i","h","a","l">>,
     <<"a","n","d","r","o","i","d",".","h","a","r","d","w","a","r","e",".","u","s","b","@","1",".","3","-","s","e","r","v","i","c","e",".","c","o","r","a","l">>,
     <<"a","n","d","r","o","i","d",".","h","a","r","d","w","a","r","e",".","v","i","b","r","a","t","o","r","-","s","e","r","v","i","c","e">>,
     <<"a","n","d","r","o","i","d",".","h","a","r","d","w","a","r","e",".","w","i","f","i","-","s","e","r","v","i","c","e">>,
     <<"a","n","d","r","o","i","d",".","h","a","r","d","w","a","r","e",".","a","u","d","i","o",".","s","e","r","v","i","c","e">>,
     <<"a","n","d","r","o","i","d",".","h","a","r","d","w","a","r","e",".","s","e","c","u","r","i","t","y",".","k","e","y","m","i","n","t","-","s","e","r","v","i","c","e">>,
     <<"a","n","d","r","o","i","d",".","h","a","r","d","w","a","r","e",".","s","e","c","u","r","i","t","y",".","f","k","e","y","m","a","s","t","e","r","-","s","e","r","v","i","c","e">>,
     <<"a","n","d","r","o","i","d",".","h","a","r","d","w","a","r","e",".","s","e","c","u","r","i","t","y",".","d","r","k","@","2",".","0","-","s","e","r","v","i","c","e">>,
     <<"a","n","d","r","o","i","d",".","h","a","r","d","w","a","r","e",".","s","e","c","u","r","i","t","y",".","e","n","g","m","o","d","e","@","1",".","0","-","s","e","r","v","i","c","e">>,
     <<"a","n","d","r","o","i","d",".","h","a","r","d","w","a","r","e",".","s","e","c","u","r","i","t","y",".","p","r","o","c","a","@","2",".","0","-","s","e","r","v","i","c","e">>,
     <<"v","e","n","d","o","r",".","s","a","m","s","u","n","g",".","h","a","r","d","w","a","r","e",".">>,
     <<"s","a","m","s","u","n","g",".","h","a","r","d","w","a","r","e",".","m","e","d","i","a",".","c","2","@","1",".","2","-","s","e","r","v","i","c","e">>,
     <<"s","a","m","s","u","n","g",".","s","o","f","t","w","a","r","e",".","m","e","d","i","a",".","c","2","@","1",".","0","-","s","e","r","v","i","c","e">>,
     <<"p","e","r","f","m","o","n","d">>,
     <<"p","a","g","e","b","o","o","s","t","d">>,
     <<"m","u","l","t","i","c","l","i","e","n","t","d">>,
     <<"k","u","m","i","h","o",".","d","e","c","o","d","e","r">>,
     <<"g","p","u","s","e","r","v","i","c","e">>,
     <<"v","n","d","s","e","r","v","i","c","e","m","a","n","a","g","e","r">>,
     <<"p","r","e","y">>,
     <<"p","r","e","y","p","r","o","j","e","c","t">>,
     <<"a","n","d","r","o","i","d",".","p","r","o","c","e","s","s",".","m","e","d","i","a">>,
     <<"a","n","d","r","o","i","d",".","p","r","o","c","e","s","s",".","a","c","o","r","e">>,
     <<"a","n","d","r","o","i","d",".","p","r","o","c","e","s","s">>,
     <<"z","y","g","o","t","e","6","4">>}

is_system_process_listed(name) ==
    \/ name \in system_names
    \/ \A k \in 1..Len(name) : name[k] # "."

\* any(name.startswith(n) for n in system_names) or '.' not in name
is_system_process(name) ==
    \/ \E n \in system_names : HasAt(name, 1, n)
    \/ \A k \in 1..Len(name) : name[k] # "."

(***************************************************************************)
(* The CLI (src/diagnose.py): run_adb_command and run_diagnostics, for a   *)
(* device that detect_device found                                         *)
(***************************************************************************)
\* a RuntimeError on a return code other than 0, '' on TimeoutExpired
run_adb_command(outcome) ==
    IF outcome.kind = "ok" THEN Returned(outcome.stdout)
    ELSE IF outcome.kind = "nonzero" THEN Raised
    ELSE Returned(<<>>)

\* what print_summary and save_report_json are given, and the lists
\* print_summary makes of it
Report(cpu, ram, thermal, gfx, services) ==
    [cpu |-> cpu, ram |-> ram, thermal |-> thermal, gfx |-> gfx,
     services |-> services,
     heavy_cpu |-> highlight_heavy_cpu(cpu),
     heavy_ram |-> highlight_heavy_ram(ram),
     cpu_system |-> SelectSeq(cpu, LAMBDA p : is_system_process(p.name)),
     cpu_user |-> SelectSeq(cpu, LAMBDA p : ~is_system_process(p.name)),
     ram_system |-> SelectSeq(ram, LAMBDA a : is_system_process(a.name)),
     ram_user |-> SelectSeq(ram, LAMBDA a : ~is_system_process(a.name))]

\* lines 390-397, unless a parser raised
Diagnosed(cpu, ram, thermal, gfx, services) ==
    IF cpu.raised \/ ram.raised \/ thermal.raised \/ gfx.raised \/ services.raised
    THEN Raised
    ELSE Returned(Report(cpu.value, ram.value, thermal.value, gfx.value, services.value))

\* lines 384-388: a parser is called only on a truthy raw text
Parsed(target, cpu_raw, ram_raw, thermal_raw, gfx_raw, services_raw) ==
    Diagnosed(
        IF cpu_raw # <<>> THEN collect_cpu_stats_from_raw(cpu_raw) ELSE Returned(<<>>),
        IF ram_raw # <<>> THEN collect_ram_stats_from_raw(ram_raw) ELSE Returned(<<>>),
        IF thermal_raw # <<>> THEN collect_thermal_info_from_raw(thermal_raw)
        ELSE Returned(NoSensors),
        IF target /\ gfx_raw # <<>> THEN collect_gfx_stats_from_raw(gfx_raw)
        ELSE Returned(NoFrames),
        IF services_raw # <<>> THEN collect_services_from_raw(services_raw)
        ELSE Returned(<<>>))

\* lines 359-363, unless a command raised
Collected(target, cpu_raw, ram_raw, thermal_raw, gfx_raw, services_raw) ==
    IF \/ cpu_raw.raised \/ ram_raw.raised \/ thermal_raw.raised
       \/ gfx_raw.raised \/ services_raw.raised
    THEN Raised
    ELSE Parsed(target, cpu_raw.value, ram_raw.value, thermal_raw.value,
                gfx_raw.value, services_raw.value)

\* args: args.target given or not, and the outcome of each command
run_diagnostics(args) ==
    Collected(args.target,
              run_adb_command(args.cpu),
              run_adb_command(args.ram),
              run_adb_command(args.thermal),
              IF args.target THEN run_adb_command(args.gfx) ELSE Returned(<<>>),
              run_adb_command(args.services))

(***************************************************************************)
(* What the commands of a CLI run may give                                 *)
(***************************************************************************)
Zygote == <<"z","y","g","o","t","e">>
VendorQti == <<"v","e","n","d","o","r",".","q","t","i",".","s","o","m","e","t",
               "h","i","n","g">>
ComExampleApp == <<"c","o","m",".","e","x","a","m","p","l","e",".","a","p","p">>
InitSvc == <<"i","n","i","t",".","s","v","c">>
Vendor == <<"v","e","n","d","o","r">>
MyApp == <<"m","y"," ","a","p","p">>

\* names of the three kinds: no dot, a listed prefix, neither
CpuNames ==
    <<TopHeader,
      TopRow(<<"1">>, <<"6", "0">>, Zygote),
      TopRow(<<"2">>, <<"5", "0">>, VendorQti),
      TopRow(<<"3">>, <<"7", "0", ".", "5">>, ComExampleApp),
      TopRow(<<"4">>, <<"1">>, InitSvc),
      TopRow(<<"5">>, <<"1">>, Vendor),
      TopRow(<<"6">>, <<"4", "9", ".", "9", "9">>, ComA)>>
\* a name with a space in it; white space only where the name should be
CpuSpaced == <<TopHeader, TopRow(<<"8">>, <<"5">>, MyApp)>>
CpuNameless == <<TopHeader, TopRow(<<"9">>, <<"5">>, <<" ", " ">>)>>
\* the row that the comment of line 418 gives as the example
ExampleRow == <<"1","2","0","3"," ","s","y","s","t","e","m"," ","1","8"," ","-",
                "2"," ","1","7","G"," ","2","5","2","M"," ","8","0","M"," ","S",
                " ","1","0","9"," ","6",".","8"," ","6","1","5",":","0","1",".",
                "2","9"," ","s","y","s","t","e","m","_","s","e","r","v","e","r">>
CpuExample == <<TopHeader, ExampleRow>>
DiagCpuTexts == CpuTexts \cup {CpuNames, CpuSpaced, CpuNameless, CpuExample}

\* 307,200 kB are 300 MB
RamHeavy ==
    <<RssMarker,
      RssEntry(<<"3","0","7",",","1","9","9">>, ComA, <<"1">>),
      RssEntry(<<"3","0","7",",","2","0","0">>, ComExampleApp, <<"2">>),
      RssEntry(<<"9","0","0",",","0","0","0">>, Zygote, <<"3">>),
      RssEntry(<<"1","0">>, VendorQti, <<"4">>)>>
DiagRamTexts == {RamSeven, RamOne, RamNoMarker, RamBadInt, RamHeavy, <<>>}

FrameSeven == <<"4",".","0"," ","2",".","0"," ","1",".","0">>
FrameTwentyTwo == <<"2","0",".","0"," ","1",".","0"," ","1",".","0">>
FrameHeader == <<"\t","D","r","a","w","\t","P","r","o","c","e","s","s","\t","E","x",
                 "e","c","u","t","e">>
FrameAtLimit == <<"1","6",".","6","7"," ","0"," ","0">>
FrameOverLimit == <<"1","6",".","5"," ","0",".","2","5"," ","0">>
FrameTwoValues == <<"1"," ","2">>
FrameBadFloat == <<"1",".","2",".","3"," ","1"," ","1">>

GfxPool ==
    {FrameSeven, FrameTwentyTwo, FrameHeader, FrameAtLimit, FrameOverLimit,
     FrameTwoValues, FrameBadFloat, <<>>}

MaxGfxLines == 2

GfxExample == <<ProfileMarker, FrameSeven, FrameTwentyTwo, <<>>>>
GfxLong ==
    <<FrameSeven, ProfileMarker, FrameHeader, FrameOverLimit, FrameTwoValues,
      FrameAtLimit, FrameTwentyTwo, <<" ">>, FrameSeven, ProfileMarker, FrameSeven>>
GfxNoMarker == <<FrameSeven, FrameTwentyTwo, <<>>>>
GfxTexts ==
    {<<ProfileMarker>> \o t : t \in TextsOver(GfxPool, MaxGfxLines)}
        \cup {GfxExample, GfxLong, GfxNoMarker, <<>>}

ServiceA == <<" "," ","*"," ","S","e","r","v","i","c","e","R","e","c","o","r",
              "d","{","a","1","f"," ","u","0"," ","c","o","m",".","a","/",".",
              "S","v","c","}">>
ServiceB == <<"*"," ","S","e","r","v","i","c","e","R","e","c","o","r","d","{",
              "f","f"," ","u","1","0"," ","c","o","m",".","b","_","2","/","x",
              ".","Y","}","}"," ","z","}">>
ServiceIntent == <<" "," "," "," ","i","n","t","e","n","t","=","{","c","m","p","=",
                   "c","o","m",".","a","/",".","S","v","c","}">>
ServiceNoUser == <<"*"," ","S","e","r","v","i","c","e","R","e","c","o","r","d","{",
                   "f","f"," ","c","o","m",".","a","/",".","S","v","c","}">>
ServicesTwo == <<ServiceIntent, ServiceA, ServiceNoUser, ServiceB>>
ServicesNone == <<ServiceIntent, ServiceNoUser>>
ServicesTexts == {ServicesTwo, ServicesNone, <<>>}

Diag(target, cpu, ram, thermal, gfx, services) ==
    [target |-> target, cpu |-> cpu, ram |-> ram, thermal |-> thermal,
     gfx |-> gfx, services |-> services]

\* the five commands, each ending in each of the three ways
DiagOutcomeCases ==
    {Diag(TRUE, Ran(a, CpuNames), Ran(b, RamHeavy), Ran(c, ThermalTwice),
          Ran(d, GfxExample), Ran(e, ServicesTwo)) :
        a \in Outcomes, b \in Outcomes, c \in Outcomes, d \in Outcomes, e \in Outcomes}
\* the five commands ending well, over the texts of each, with and without
\* a target
DiagTextCases ==
    {Diag(TRUE, Ran("ok", t), Ran("ok", RamHeavy), Ran("ok", ThermalOne),
          Ran("ok", GfxExample), Ran("ok", ServicesTwo)) : t \in DiagCpuTexts \cup {<<>>}}
      \cup {Diag(TRUE, Ran("ok", CpuNames), Ran("ok", t), Ran("ok", ThermalOne),
                 Ran("ok", GfxExample), Ran("ok", ServicesTwo)) : t \in DiagRamTexts}
      \cup {Diag(TRUE, Ran("ok", CpuNames), Ran("ok", RamHeavy), Ran("ok", t),
                 Ran("ok", GfxExample), Ran("ok", ServicesTwo)) :
              t \in ThermalTexts \cup {<<>>}}
      \cup {Diag(g, Ran("ok", CpuNames), Ran("ok", RamHeavy), Ran("ok", ThermalOne),
                 Ran("ok", t), Ran("ok", ServicesTwo)) : g \in BOOLEAN, t \in GfxTexts}
      \cup {Diag(TRUE, Ran("ok", CpuNames), Ran("ok", RamHeavy), Ran("ok", ThermalOne),
                 Ran("ok", GfxExample), Ran("ok", t)) : t \in ServicesTexts}
DiagInputs == DiagOutcomeCases \cup DiagTextCases

(***************************************************************************)
(* One run of the CLI (main without --interval)                            *)
(***************************************************************************)
DiagInit ==
    /\ cmds \in DiagInputs
    /\ stats = NoStats
    /\ SessionInit

main ==
    /\ ~stats.done
    /\ stats' = [done |-> TRUE] @@ run_diagnostics(cmds)
    /\ UNCHANGED <<cmds, sessionVars>>

DiagSpec == DiagInit /\ [][main]_vars

(***************************************************************************)
(* The claims                                                              *)
(***************************************************************************)
AllIdle == \A h \in Handlers : hpc[h] = "idle"
Built == stats.done /\ ~stats.raised
ParsedCpu == collect_cpu_stats_from_raw(run_adb(cmds.cpu))
ParsedRam == collect_ram_stats_from_raw(run_adb(cmds.ram))
ParsedThermal == collect_thermal_info_from_raw(run_adb(cmds.thermal))

\* C1: a stop() called when no other request was being served, and which no
\* start() overtook, exports exactly the Snapshots of the ticks of its
\* session that have completed: as many as completed, each from a tick begun
\* in that session, in capture order (timestamp non-decreasing).
C1_StopExportsTheTicksOfTheSession ==
    (exported.done /\ exported.alone /\ exported.called = exported.ended) =>
        /\ Len(exported.data) = exported.nticks
        /\ \A i \in 1..Len(exported.origin) : exported.origin[i] = exported.called
        /\ \A i, j \in 1..Len(exported.data) :
              i < j => exported.data[i].timestamp <= exported.data[j].timestamp

\* C2: whenever the aggregator is Idle (the flag is down and no request is
\* being served), the session history is empty.
C2_IdleHistoryIsEmpty ==
    (~session_active /\ AllIdle) => session_data = <<>>

\* C3: a start() accepted while Running returns at once and changes neither
\* the flag, the history, the thread nor any task; the flag is raised, the
\* history cleared and a thread started only by a start() that found Idle.
C3_StartWhileRunningIsNoOp ==
    /\ [][(ncalls' = ncalls + 1 /\ session_active /\ session_active') =>
            UNCHANGED <<session_data, session_thread, data_lock, tpc, hpc, nsess>>]_vars
    /\ [][\A h \in Handlers :
            (hpc[h] = "idle" /\ hpc'[h] = "s_set") => ~session_active]_vars
    /\ [][((~session_active /\ session_active')
             \/ (session_data # <<>> /\ session_data' = <<>>)
             \/ (\E t \in Threads : tpc[t] = "unborn" /\ tpc'[t] # "unborn")) =>
            \E h \in Handlers :
                /\ hpc[h] \in {"s_set", "s_clear", "s_spawn"}
                /\ hpc'[h] # hpc[h]]_vars

\* two requests were accepted, one start() found Idle, no stop() was ever
\* called: the other request was a start() while Running, after a tick
C3_Witness ==
    /\ session_active /\ AllIdle
    /\ ncalls = 2 /\ nsess = 1 /\ ~exported.done
    /\ session_data # <<>>

\* C4: a stop handler reads the history only while it holds data_lock, and
\* never while a monitor thread is inside its append.
C4_StopReadsUnderTheLock ==
    \A h \in Handlers :
        hpc[h] = "dumping" =>
            /\ data_lock = Handler(h)
            /\ \A t \in Threads : tpc[t] # "append"

\* C5: a thread that a stop() has cancelled ends at its next test of the
\* loop, whatever start() and stop() calls came after that stop().
C5_CancelledThreadEndsAtNextCheck ==
    [][\A t \in Threads :
          (cancelled[t] /\ tpc[t] = "loop" /\ tpc'[t] # "loop") => tpc'[t] = "dead"]_vars

\* C6: every tick that begins ends with one Snapshot to append, and its
\* append makes the history one longer.
C6_EveryTickAppendsOneSnapshot ==
    [][\A t \in Threads :
          /\ (tpc[t] = "collect" /\ tpc'[t] # "collect") => tpc'[t] = "lock"
          /\ (tpc[t] = "append" /\ tpc'[t] # "append") =>
                Len(session_data') = Len(session_data) + 1]_vars

\* C7: whichever of the three commands fail, collect_stats returns a Snapshot
\* and does not raise: a failed source gives its empty collection, the other
\* sources their parsed results; with three empty texts the Snapshot is
\* empty, all of total_ram is free and the health follows from that.
C7_SnapshotWhateverFails ==
    /\ stats.done => ~stats.raised
    /\ Built =>
        /\ cmds.cpu.kind # "ok" => stats.value.cpu = <<>>
        /\ cmds.ram.kind # "ok" => stats.value.ram = <<>>
        /\ cmds.thermal.kind # "ok" => stats.value.thermal = NoSensors
        /\ cmds.cpu.kind = "ok" => stats.value.cpu = Take(ParsedCpu.value, 5)
        /\ cmds.ram.kind = "ok" => stats.value.ram = Take(ParsedRam.value, 5)
        /\ cmds.thermal.kind = "ok" => stats.value.thermal = ParsedThermal.value
        /\ (run_adb(cmds.cpu) = <<>> /\ run_adb(cmds.ram) = <<>>
              /\ run_adb(cmds.thermal) = <<>>) =>
                /\ stats.value.cpu = <<>> /\ stats.value.ram = <<>>
                /\ stats.value.thermal = NoSensors
                /\ stats.value.free_ram = stats.value.total_ram
                /\ stats.value.mem_health = "good"

\* C8: in every Snapshot mem_health is low exactly when free_ram < 500 MB,
\* medium exactly when 500 MB <= free_ram < 1000 MB, good exactly when
\* free_ram >= 1000 MB.
C8_HealthFollowsFreeMemory ==
    Built =>
        LET free == stats.value.free_ram
            health == stats.value.mem_health
        IN  /\ health \in {"low", "medium", "good"}
            /\ health = "low" <=> free < 500 * 1024
            /\ health = "medium" <=> (500 * 1024 <= free /\ free < 1000 * 1024)
            /\ health = "good" <=> free >= 1000 * 1024

\* a Snapshot with exactly 500 MB free, which is medium
C8_Witness ==
    Built /\ stats.value.free_ram = 500 * 1024 /\ stats.value.mem_health = "medium"

\* C9: in every Snapshot free_ram is 4096 MB less the ram_mb of every entry
\* the memory parser gave, also those past the five reported; an entry's
\* ram_mb is its kB figure, the commas dropped, over 1024 (2,048K is 2 MB).
C9_FreeMemoryCountsEveryEntry ==
    Built =>
        /\ stats.value.total_ram = 4096 * 1024
        /\ ~ParsedRam.raised
        /\ stats.value.free_ram = 4096 * 1024 - SumRam(ParsedRam.value)
        /\ run_adb(cmds.ram) = RamOne =>
              /\ stats.value.ram[1].ram_mb = 2 * 1024
              /\ stats.value.free_ram = 4094 * 1024
        /\ run_adb(cmds.ram) = RamSeven =>
              stats.value.free_ram =
                  4096 * 1024 - (300 + 700 + 1024 + 700 + 200 + 900 + 4000000)

\* a Snapshot of seven memory entries, two of them not reported
C9_Witness ==
    Built /\ run_adb(cmds.ram) = RamSeven /\ Len(ParsedRam.value) = 7
          /\ Len(stats.value.ram) = 5

\* C10: in every Snapshot cpu is the first min(5, n) rows of the parsed
\* process list, in the order of the rows, and ram the first min(5, m)
\* entries of the parsed memory list, descending by ram_mb: no entry left out
\* is larger than one that is in.
C10_TopFiveOfEach ==
    Built =>
        LET cpu == stats.value.cpu
            ram == stats.value.ram
        IN  /\ Len(cpu) = IF Len(ParsedCpu.value) < 5 THEN Len(ParsedCpu.value) ELSE 5
            /\ \A i \in 1..Len(cpu) : cpu[i] = ParsedCpu.value[i]
            /\ run_adb(cmds.cpu) = CpuSix =>
                  [i \in 1..Len(cpu) |-> cpu[i].pid] = <<1, 2, 3, 4, 5>>
            /\ Len(ram) = IF Len(ParsedRam.value) < 5 THEN Len(ParsedRam.value) ELSE 5
            /\ \A i \in 1..Len(ram) : ram[i] = ParsedRam.value[i]
            /\ \A i, j \in 1..Len(ram) : i < j => ram[i].ram_mb >= ram[j].ram_mb
            /\ \A i \in 1..Len(ram) : \A j \in 1..Len(ParsedRam.value) :
                  j > Len(ram) => ParsedRam.value[j].ram_mb <= ram[i].ram_mb
            /\ run_adb(cmds.ram) = RamSeven =>
                  [i \in 1..Len(ram) |-> ram[i].pid] = <<7, 3, 6, 2, 4>>

\* a Snapshot that leaves out a row of six and two entries of seven, the
\* entries given out of order
C10_Witness ==
    /\ Built
    /\ run_adb(cmds.cpu) = CpuSix /\ run_adb(cmds.ram) = RamSeven
    /\ Len(stats.value.cpu) = 5 /\ Len(stats.value.ram) = 5

\* the least element of a non-empty set of integers
Least(S) == CHOOSE i \in S : \A j \in S : i <= j

\* the lines of the 'Total RSS by process:' section: those after the first
\* line holding the marker and before the first blank line after it
RamSection(raw) ==
    LET marked == {i \in 1..Len(raw) : Contains(raw[i], RssMarker)}
    IN  IF marked = {} THEN <<>>
        ELSE LET blank == {i \in (Least(marked) + 1)..Len(raw) : IsBlank(raw[i])}
                 last == IF blank = {} THEN Len(raw) ELSE Least(blank) - 1
             IN  SubSeq(raw, Least(marked) + 1, last)

IsEntryLine(line) == RamLineMatch(line).ok

\* how many elements of the sequence s are e
Occurrences(s, e) == Cardinality({k \in 1..Len(s) : s[k] = e})

\* C11: whenever the memory parser returns, what it returns is descending by
\* ram_mb, and holds one entry for each entry line of the section (the lines
\* after the first marker line and before the first blank line after it),
\* no other entry, each as often as its line occurs.
C11_SortedEntriesOfTheSection ==
    ~ParsedRam.raised =>
        LET result == ParsedRam.value
            lines == SelectSeq(RamSection(run_adb(cmds.ram)), IsEntryLine)
            entry(l) == [name |-> RamLineMatch(l).name,
                         pid |-> DigitsValue(RamLineMatch(l).pid),
                         ram_mb |-> DigitsValue(Remove(RamLineMatch(l).kb, ","))]
            entries == [k \in 1..Len(lines) |-> entry(lines[k])]
        IN  /\ \A i, j \in 1..Len(result) :
                  i < j => result[i].ram_mb >= result[j].ram_mb
            /\ Len(result) = Len(entries)
            /\ \A k \in 1..Len(entries) :
                  Occurrences(result, entries[k]) = Occurrences(entries, entries[k])

\* seven entry lines out of order, a blank line and an eighth entry line
\* after it: seven entries returned, the largest first
C11_Witness ==
    /\ stats.done
    /\ run_adb(cmds.ram) = RamSeven
    /\ Len(SelectSeq(RamSeven, IsEntryLine)) = 8
    /\ ~ParsedRam.raised /\ Len(ParsedRam.value) = 7
    /\ ParsedRam.value[1].pid = 7 /\ ParsedRam.value[7].pid = 5

\* the commands of the run all ended well
AllRan ==
    /\ cmds.cpu.kind = "ok" /\ cmds.ram.kind = "ok" /\ cmds.thermal.kind = "ok"
    /\ cmds.gfx.kind = "ok" /\ cmds.services.kind = "ok"
Diagnosis == stats.done /\ ~stats.raised

\* C12: every parser is total: whatever the texts of the commands, a run
\* whose commands all ended well parses them without raising (an unparsable
\* line is skipped).
C12_ParsersNeverRaise == (stats.done /\ AllRan) => ~stats.raised

\* the frame command ran and its text went to the frame parser
GfxParsed == cmds.target /\ cmds.gfx.kind = "ok" /\ cmds.gfx.stdout # <<>>

\* the lines after the first 'Profile data in ms:' line and before the first
\* blank line after it
GfxSection(raw) ==
    LET marked == {i \in 1..Len(raw) : Contains(raw[i], ProfileMarker)}
    IN  IF marked = {} THEN <<>>
        ELSE LET blank == {i \in (Least(marked) + 1)..Len(raw) : IsBlank(raw[i])}
                 last == IF blank = {} THEN Len(raw) ELSE Least(blank) - 1
             IN  SubSeq(raw, Least(marked) + 1, last)

\* a line of exactly three numeric values, and their sum
IsFrame(parts) == Len(parts) = 3 /\ \A k \in 1..3 : FloatOk(parts[k])
IsFrameLine(line) == IsFrame(Split(line, 1, <<>>))
FrameSumOf(parts) ==
    AddQ(FloatValue(parts[1]), AddQ(FloatValue(parts[2]), FloatValue(parts[3])))
FrameSum(line) == FrameSumOf(Split(line, 1, <<>>))
FrameLines(section) == {i \in 1..Len(section) : IsFrameLine(section[i])}
RECURSIVE SectionSum(_, _)
SectionSum(section, i) ==
    IF i > Len(section) THEN ZeroQ
    ELSE IF IsFrameLine(section[i])
         THEN AddQ(FrameSum(section[i]), SectionSum(section, i + 1))
         ELSE SectionSum(section, i + 1)

FrameRule(gfx, section) ==
    /\ gfx.total_frames = Cardinality(FrameLines(section))
    /\ gfx.jank_frames =
           Some(Cardinality({i \in FrameLines(section) :
                               GreaterQ(FrameSum(section[i]), JankMs)}))
    /\ gfx.avg_frame_time_ms # Absent
    /\ EqualQ(gfx.avg_frame_time_ms[1],
              OverQ(SectionSum(section, 1), Cardinality(FrameLines(section))))
FramesAre(gfx, avg, jank, total) ==
    /\ gfx.avg_frame_time_ms # Absent
    /\ EqualQ(gfx.avg_frame_time_ms[1], avg)
    /\ gfx.jank_frames = Some(jank)
    /\ gfx.total_frames = total
ExampleParsed == Diagnosis /\ GfxParsed /\ cmds.gfx.stdout = GfxExample

\* C13 as stated: the data lines "4.0 2.0 1.0" and "20.0 1.0 1.0" followed by
\* a blank line give the average 13.5, one jank frame and two frames.
C13_ExampleAveragesThirteenAndAHalf ==
    ExampleParsed => FramesAre(stats.value.gfx, [num |-> 135, den |-> 10], 1, 2)

\* C13: the data lines "4.0 2.0 1.0" and "20.0 1.0 1.0" followed by a blank
\* line give the average 14.5 (the mean of 7.0 and 22.0), one jank frame and
\* two frames; in general, when the section after the marker holds a line of
\* three numeric values, the average is the mean of the sums of those lines,
\* the jank count is the number of sums strictly greater than 16.67, and the
\* total is the number of those lines before the first blank line.
C13_FrameStatistics ==
    /\ ExampleParsed => FramesAre(stats.value.gfx, [num |-> 145, den |-> 10], 1, 2)
    /\ (Diagnosis /\ GfxParsed /\ FrameLines(GfxSection(cmds.gfx.stdout)) # {}) =>
           FrameRule(stats.value.gfx, GfxSection(cmds.gfx.stdout))

\* the example has been parsed, and so has a text with a sum of exactly 16.67
C13_Witness == ExampleParsed
C13_WitnessAtLimit ==
    /\ Diagnosis /\ GfxParsed
    /\ \E i \in FrameLines(GfxSection(cmds.gfx.stdout)) :
           EqualQ(FrameSum(GfxSection(cmds.gfx.stdout)[i]), JankMs)

IsSentinel(gfx) ==
    /\ gfx.avg_frame_time_ms = Absent
    /\ gfx.jank_frames = Absent
    /\ gfx.total_frames = 0

\* C14: the frame parser gives the sentinel (average and jank count absent,
\* not zero, and a total of 0) exactly when it parsed no frame: the marker is
\* missing, or no line between the marker and the first blank line after it
\* holds exactly three numeric values; otherwise both are present and the
\* total counts every such line of the section, whatever other lines stand
\* between them.
C14_SentinelExactlyWhenNoFrames ==
    (Diagnosis /\ GfxParsed) =>
        IF FrameLines(GfxSection(cmds.gfx.stdout)) = {}
        THEN IsSentinel(stats.value.gfx)
        ELSE /\ stats.value.gfx.avg_frame_time_ms # Absent
             /\ stats.value.gfx.jank_frames # Absent
             /\ stats.value.gfx.total_frames =
                    Cardinality(FrameLines(GfxSection(cmds.gfx.stdout)))

\* a section that holds lines, none of them a frame, gave the sentinel
C14_Witness ==
    /\ Diagnosis /\ GfxParsed
    /\ GfxSection(cmds.gfx.stdout) # <<>>
    /\ FrameLines(GfxSection(cmds.gfx.stdout)) = {}
    /\ IsSentinel(stats.value.gfx)
\* a text without the marker gave the sentinel
C14_WitnessNoMarker ==
    /\ Diagnosis /\ GfxParsed
    /\ \A i \in 1..Len(cmds.gfx.stdout) : ~Contains(cmds.gfx.stdout[i], ProfileMarker)
    /\ IsSentinel(stats.value.gfx)
\* a line of another token count stood before a frame of the section
C14_WitnessSkipped ==
    /\ Diagnosis /\ GfxParsed
    /\ \E i \in FrameLines(GfxSection(cmds.gfx.stdout)) :
           i > 1 /\ ~IsFrameLine(GfxSection(cmds.gfx.stdout)[i - 1])
    /\ stats.value.gfx.total_frames >= 1

\* the lines of a thermal text that the pattern matches, and the name and the
\* value of such a line
SensorLines(raw) == {i \in 1..Len(raw) : ThermalSearch(raw[i], 1) # 0}
SensorOf(line) == ThermalAt(line, ThermalSearch(line, 1))
LastOf(raw, name) ==
    CHOOSE i \in SensorLines(raw) :
        /\ SensorOf(raw[i]).name = name
        /\ \A j \in SensorLines(raw) : SensorOf(raw[j]).name = name => j <= i
LastValues(sensors, raw) ==
    /\ DOMAIN sensors = {SensorOf(raw[i]).name : i \in SensorLines(raw)}
    /\ \A n \in DOMAIN sensors :
           sensors[n] = FloatValue(SensorOf(raw[LastOf(raw, n)]).value)

CpuText == IF cmds.cpu.kind = "ok" THEN cmds.cpu.stdout ELSE <<>>
RamText == IF cmds.ram.kind = "ok" THEN cmds.ram.stdout ELSE <<>>
AtLeastFifty(p) == p.cpu.num >= 50 * p.cpu.den
\* 300 MB are 307,200 kB
AtLeastThreeHundred(a) == a.ram_mb >= 307200

StartsWith(name, n) == Len(n) <= Len(name) /\ SubSeq(name, 1, Len(n)) = n
NoDot(name) == \A k \in 1..Len(name) : name[k] # "."
SystemEntity(e) == NoDot(e.name) \/ \E n \in system_names : StartsWith(e.name, n)
UserEntity(e) == ~SystemEntity(e)
Names(entries) == {entries[i].name : i \in 1..Len(entries)}

\* C17: a name is a system name exactly when it holds no '.' or starts with a
\* string of the list system_names: the system and user lists of a report
\* split the parsed processes and memory entries by that rule, so "zygote"
\* (no dot) and "vendor.qti.something" (prefix 'vendor.') are system and
\* "com.example.app" is not.
C17_SystemByPrefixOrNoDot ==
    /\ Diagnosis =>
           /\ stats.value.cpu_system = SelectSeq(stats.value.cpu, SystemEntity)
           /\ stats.value.cpu_user = SelectSeq(stats.value.cpu, UserEntity)
           /\ stats.value.ram_system = SelectSeq(stats.value.ram, SystemEntity)
           /\ stats.value.ram_user = SelectSeq(stats.value.ram, UserEntity)
    /\ (Diagnosis /\ CpuText = CpuNames) =>
           /\ {Zygote, VendorQti} \subseteq Names(stats.value.cpu_system)
           /\ ComExampleApp \in Names(stats.value.cpu_user)

\* the three names of the claim have been classified, and so has a dotted
\* name that only starts with a listed name
C17_Witness ==
    /\ Diagnosis /\ CpuText = CpuNames
    /\ Names(stats.value.cpu_system) = {Zygote, VendorQti, InitSvc, Vendor}
    /\ Names(stats.value.cpu_user) = {ComExampleApp, ComA}

\* C18: the CLI's runner never raises for a command that exits non-zero or
\* times out: a run whose texts all parse ends with a report, in which the
\* source of every such command is empty.
C18_RunnerGivesEmptyOnFailure ==
    (stats.done /\ cmds \in DiagOutcomeCases) =>
        /\ ~stats.raised
        /\ cmds.cpu.kind # "ok" => stats.value.cpu = <<>>
        /\ cmds.ram.kind # "ok" => stats.value.ram = <<>>
        /\ cmds.thermal.kind # "ok" => stats.value.thermal = NoSensors
        /\ cmds.gfx.kind # "ok" => IsSentinel(stats.value.gfx)
        /\ cmds.services.kind # "ok" => stats.value.services = <<>>

\* C19: in every reachable state no two Snapshots of the session history
\* have the same timestamp.
C19_TimestampsAreDistinct ==
    \A i, j \in 1..Len(session_data) :
        i # j => session_data[i].timestamp # session_data[j].timestamp

\* C20: a data row after a valid header whose NAME field holds embedded
\* spaces is accepted, and its name is the whole NAME field with the spaces
\* (not only its first word).
C20_NameKeepsItsSpaces ==
    (Diagnosis /\ CpuText = CpuSpaced) =>
        /\ Len(stats.value.cpu) = 1
        /\ stats.value.cpu[1].name = MyApp

SystemServer == <<"s","y","s","t","e","m","_","s","e","r","v","e","r">>
Pids(processes) == [i \in 1..Len(processes) |-> processes[i].pid]

\* C21: the row that the parser gives as its own example, '1203 system 18 -2
\* 17G 252M 80M S 109 6.8 615:01.29 system_server', after a valid header
\* gives one sample: pid 1203, user system, cpu 109, mem 6.8, time
\* '615:01.29', name system_server; and rows are emitted in source order.
C21_ExampleRowIsParsed ==
    /\ (Diagnosis /\ CpuText = CpuExample) =>
           /\ Len(stats.value.cpu) = 1
           /\ stats.value.cpu[1].pid = 1203
           /\ stats.value.cpu[1].user = <<"s","y","s","t","e","m">>
           /\ stats.value.cpu[1].cpu = [num |-> 109, den |-> 1]
           /\ stats.value.cpu[1].mem = [num |-> 68, den |-> 10]
           /\ stats.value.cpu[1].time = <<"6","1","5",":","0","1",".","2","9">>
           /\ stats.value.cpu[1].name = SystemServer
    /\ (Diagnosis /\ CpuText = CpuNames) =>
           Pids(stats.value.cpu) = <<1, 2, 3, 4, 5, 6>>

\* a thread that is alive and will append: it found the flag up at its last
\* test, or it is at the test with the flag up
AbleToAppend(t) ==
    \/ tpc[t] \in {"collect", "lock", "append"}
    \/ tpc[t] = "loop" /\ session_active

\* C22: at every moment at most one monitor thread is alive and able to
\* append to the session history.
C22_OneThreadAtMost ==
    Cardinality({t \in Threads : AbleToAppend(t)}) <= 1

\* a stop() called when no request was being served has returned, and no
\* start() was accepted between its call and its return
StopReturned == exported.done /\ exported.alone /\ exported.called = exported.ended
\* ... and none has been accepted since
Stopped == StopReturned /\ exported.ended = nsess
\* ... and one has been accepted since, which has made its new list
Restarted ==
    /\ StopReturned /\ nsess = exported.ended + 1
    /\ \A h \in Handlers : hpc[h] \notin {"s_set", "s_clear"}
\* the thread t appends in this step
Appends(t) == tpc[t] = "append" /\ tpc'[t] = "loop"

\* once a stop() has returned and until the next start(), the history is not
\* modified
HistoryRestsAfterStop == Stopped => session_data' = session_data
\* the history that a start() began receives only Snapshots of ticks begun
\* after that start()
HistoryOfItsSession ==
    \A t \in Threads : (Restarted /\ Appends(t)) => tsess[t] = nsess

\* C23: once stop() has returned, the session history is not modified until
\* the next start(): a tick in flight when stop() was called does not append
\* after the export, and the history of a later start() holds only Snapshots
\* whose collection began after that start().
C23_HistoryRestsAfterStop ==
    [][HistoryRestsAfterStop /\ HistoryOfItsSession]_vars

=============================================================================
